---- MODULE Spec2Model ----
(***************************************************************************)
(* Monte Carlo localization (particle filter) of particle_filter.py.       *)
(*                                                                         *)
(* Poses live on an integer lattice: x and y in map units, theta in        *)
(* quarter turns (pi/2), so that cos and sin are exact.  Importance        *)
(* weights are binary floating-point numbers, as in the program: every     *)
(* arithmetic operation on them rounds to the nearest representable value  *)
(* (ties to even).  The significand has MantBits bits instead of the 53    *)
(* of a Python float; a weight is held as an integer count of 2^-FracBits. *)
(***************************************************************************)
EXTENDS Integers, Sequences, FiniteSets, TLC

(* ------------------------------ bounds --------------------------------- *)
\* significand width of the modelled floats (53 in the program)
MantBits == 4
\* resolution of the float grid: one unit is 2^-FracBits
FracBits == 12
\* longest particle list / weight vector handed to resample_particles alone
MaxLen == 2
\* particles of a run (50 in the program)
NumParticles == 2
\* longest sensor log of a run
MaxRecords == 2

Unit == 2^FracBits

(* ------------------------ floating-point arithmetic -------------------- *)
RECURSIVE BitLen(_)
BitLen(n) == IF n = 0 THEN 0 ELSE 1 + BitLen(n \div 2)

\* the float nearest to the rational n/d (in units), ties to even
RoundRat(n, d) ==
    LET t     == n \div d
        r     == n % d
        sh    == IF BitLen(t) > MantBits THEN BitLen(t) - MantBits ELSE 0
        g     == 2^sh
        q     == t \div g
        twice == 2 * ((t % g) * d + r)
        full  == g * d
        up    == twice > full \/ (twice = full /\ q % 2 = 1)
    IN  (IF up THEN q + 1 ELSE q) * g

Fadd(a, b) == RoundRat(a + b, 1)
Fmul(a, b) == RoundRat(a * b, Unit)
Fdiv(a, b) == RoundRat(a * Unit, b)
\* the float a decimal literal num/den denotes
Literal(num, den) == RoundRat(num * Unit, den)

(* ------------------------------ particles ------------------------------ *)
Pose(px, py, pt) == [x |-> px, y |-> py, theta |-> pt]

\* map_limits = [xmin, xmax, ymin, ymax]
MapLimits == <<-1, 12, 0, 10>>
\* pi, in quarter turns
PiQ == 2

\* np.random.uniform(lo, hi) = lo + (hi - lo) * random_sample: the draws kept
\* are the two ends (rounding can return hi itself)
UniformDraws(lo, hi) == {lo, hi}

RECURSIVE SeqsOf(_, _)
SeqsOf(S, n) ==
    IF n = 0 THEN {<<>>}
    ELSE {Append(s, e) : s \in SeqsOf(S, n - 1), e \in S}

\* the particle lists generate_particles(num_particles, map_limits) can return
generate_particles(num_particles, map_limits) ==
    SeqsOf({Pose(px, py, pt) :
               px \in UniformDraws(map_limits[1], map_limits[2]),
               py \in UniformDraws(map_limits[3], map_limits[4]),
               pt \in UniformDraws(-PiQ, PiQ)},
           num_particles)

(* ------------------------------ resampling ----------------------------- *)
\* a weight as weight_update leaves it: its value and whether it is a numpy
\* float64 (np) or a plain Python float
Weight(v, isnp) == [val |-> v, np |-> isnp]

\* the float literal 0.01 of the collapse test
CollapseThreshold == Literal(1, 100)

\* sum(weights): Python's left-to-right sum, starting from the int 0
RECURSIVE SumFrom(_, _, _)
SumFrom(weights, k, acc) ==
    IF k > Len(weights) THEN acc
    ELSE SumFrom(weights, k + 1,
                 Weight(Fadd(acc.val, weights[k].val), acc.np \/ weights[k].np))

normalizer(weights) == SumFrom(weights, 1, Weight(0, FALSE))

\* mutant of Collapsed: the comparison is not strict
Collapsed_NonStrict(weights) == normalizer(weights).val <= CollapseThreshold

\* the test of the collapse fallback: normalizer < 0.01
Collapsed(weights) == normalizer(weights).val < CollapseThreshold

\* weights / normalizer: numpy divides elementwise when normalizer is a float64
Normalized(weights) ==
    [k \in 1..Len(weights) |-> Fdiv(weights[k].val, normalizer(weights).val)]

\* step = 1.0 / len(particles)
StepOf(particles) == RoundRat(Unit, Len(particles))

\* the random_sample values behind np.random.uniform: j / 2^MantBits
RandomSamples == 0..(2^MantBits - 1)

\* u = np.random.uniform(0, step) = 0 + (step - 0) * random_sample
UniformOffset(step, j) == Fadd(0, RoundRat(step * j, 2^MantBits))

\* mutant of ScanOn: the scan also advances when u equals c
ScanOn_Geq(u, c) == u >= c

\* the guard of the inner scan: while u > c
ScanOn(u, c) == u > c

\* the inner scan: advance i and c while u > c; weights[i] past the end raises
RECURSIVE Scan(_, _, _, _)
Scan(w, i, c, u) ==
    IF ScanOn(u, c)
    THEN IF i + 1 >= Len(w)
         THEN [err |-> "IndexError", i |-> i + 1, c |-> c]
         ELSE Scan(w, i + 1, Fadd(c, w[i + 2]), u)
    ELSE [err |-> "none", i |-> i, c |-> c]

\* mutant of Selected: the copy is jittered instead of taken as it is
Selected_Jitter(particles, i) == [particles[i + 1] EXCEPT !.x = @ + 1]

\* the particle appended for the pointer i: particles[i]
Selected(particles, i) == particles[i + 1]

\* the loop "for particle in particles": k counts the slots filled so far.
\* st = [err, i, c, u, out, picked, cs, us]; picked, cs and us record, per
\* slot, the index selected, and the values of c and u at the selection.
RECURSIVE Slots(_, _, _, _, _)
Slots(particles, w, step, k, st) ==
    IF k = Len(particles) THEN st
    ELSE LET sc == Scan(w, st.i, st.c, st.u)
         IN  IF sc.err # "none"
             THEN [st EXCEPT !.err = sc.err, !.i = sc.i]
             ELSE IF sc.i >= Len(particles)
             THEN [st EXCEPT !.err = "IndexError", !.i = sc.i]
             ELSE Slots(particles, w, step, k + 1,
                        [err    |-> "none",
                         i      |-> sc.i,
                         c      |-> sc.c,
                         u      |-> Fadd(st.u, step),
                         out    |-> Append(st.out, Selected(particles, sc.i)),
                         picked |-> Append(st.picked, sc.i),
                         cs     |-> Append(st.cs, sc.c),
                         us     |-> Append(st.us, st.u)])

\* stochastic universal sampling, lines 174-189, for the random_sample j
Sus(particles, weights, j) ==
    IF ~normalizer(weights).np
    THEN [path |-> "sus", err |-> "TypeError", out |-> <<>>, picked |-> <<>>,
          i |-> 0, cs |-> <<>>, us |-> <<>>]
    ELSE IF Len(particles) = 0
    THEN [path |-> "sus", err |-> "ZeroDivisionError", out |-> <<>>,
          picked |-> <<>>, i |-> 0, cs |-> <<>>, us |-> <<>>]
    ELSE LET w    == Normalized(weights)
             step == StepOf(particles)
             st   == Slots(particles, w, step, 0,
                           [err |-> "none", i |-> 0, c |-> w[1],
                            u |-> UniformOffset(step, j), out |-> <<>>,
                            picked |-> <<>>, cs |-> <<>>, us |-> <<>>])
         IN  [path |-> "sus", err |-> st.err, out |-> st.out,
              picked |-> st.picked, i |-> st.i, cs |-> st.cs, us |-> st.us]

\* the collapse fallback, lines 171-173: a fresh particle set
Fallback(fresh) ==
    [path |-> "collapse", err |-> "none", out |-> fresh, picked |-> <<>>,
     i |-> 0, cs |-> <<>>, us |-> <<>>]

\* the size and bounds of the fallback's fresh set
FallbackSets(weights) == generate_particles(Len(weights), <<-1, 12, 0, 10>>)

\* resample_particles(particles, weights): every result the call can have
resample_particles(particles, weights) ==
    IF Collapsed(weights)
    THEN {Fallback(fresh) : fresh \in FallbackSets(weights)}
    ELSE {Sus(particles, weights, j) : j \in RandomSamples}

(* ------------------------------ motion model --------------------------- *)
\* cos and sin of an angle given in quarter turns
Cos(q) == CASE q % 4 = 0 -> 1 [] q % 4 = 2 -> -1 [] OTHER -> 0
Sin(q) == CASE q % 4 = 1 -> 1 [] q % 4 = 3 -> -1 [] OTHER -> 0

Abs(a) == IF a < 0 THEN -a ELSE a

Odometry(r1, t, r2) == [r1 |-> r1, t |-> t, r2 |-> r2]

\* the motion noise parameters [alpha1, alpha2, alpha3, alpha4], in hundredths
noise == <<10, 10, 5, 5>>

\* the three standard deviations (in hundredths)
sigma_delta_rot1(o)  == noise[1] * Abs(o.r1) + noise[2] * o.t
sigma_delta_trans(o) == noise[3] * o.t + noise[4] * (Abs(o.r1) + Abs(o.r2))
sigma_delta_rot2(o)  == noise[1] * Abs(o.r2) + noise[2] * o.t

\* np.random.normal(0, sigma): exactly 0 when sigma is 0, else one of the
\* lattice draws kept
NormalDraws(sigma) == IF sigma = 0 THEN {0} ELSE {0, 1}

\* one particle moved with the noise draws n1, nt, n2 (lines 120-126)
Moved(particle, o, n1, nt, n2) ==
    LET noisy_delta_rot1  == o.r1 + n1
        noisy_delta_trans == o.t + nt
        noisy_delta_rot2  == o.r2 + n2
    IN  Pose(particle.x + noisy_delta_trans * Cos(particle.theta + noisy_delta_rot1),
             particle.y + noisy_delta_trans * Sin(particle.theta + noisy_delta_rot1),
             particle.theta + noisy_delta_rot1 + noisy_delta_rot2)

\* the lists the loop over the first k particles can build (lines 119-127)
RECURSIVE MovedUpTo(_, _, _)
MovedUpTo(o, particles, k) ==
    IF k = 0 THEN {<<>>}
    ELSE {Append(s, Moved(particles[k], o, n1, nt, n2)) :
             s  \in MovedUpTo(o, particles, k - 1),
             n1 \in NormalDraws(sigma_delta_rot1(o)),
             nt \in NormalDraws(sigma_delta_trans(o)),
             n2 \in NormalDraws(sigma_delta_rot2(o))}

\* mutant of sample_motion: the loop leaves out the last particle
sample_motion_DropLast(odometry, particles) ==
    MovedUpTo(odometry, particles, Len(particles) - 1)

\* sample_motion(odometry, particles): every list the call can return
sample_motion(odometry, particles) ==
    MovedUpTo(odometry, particles, Len(particles))

(* ------------------------------ sensor model --------------------------- *)
\* the world map: landmark id -> <<x, y>>
landmarks == (1 :> <<-1, 5>>) @@ (2 :> <<12, 5>>)

Sensor(ids, ranges) ==
    [id |-> ids, range |-> ranges, bearing |-> [k \in DOMAIN ids |-> 0]]

\* |meas_range - sqrt(d2)| in tenths, rounded up, capped at 10; measured
\* ranges are given in tenths of a map unit
ErrTenths(meas_range, d2) ==
    LET Within(k) == /\ 100 * d2 <= (meas_range + k) * (meas_range + k)
                     /\ \/ meas_range - k <= 0
                        \/ (meas_range - k) * (meas_range - k) <= 100 * d2
    IN  IF \E k \in 0..9 : Within(k)
        THEN CHOOSE k \in 0..9 : Within(k) /\ \A m \in 0..(k - 1) : ~Within(m)
        ELSE 10

\* 1000 * scipy.stats.norm.pdf(e, 0, sigma_r) for sigma_r = 0.2 and
\* e = 0.0, 0.1, ..., 1.0
PdfMilli == <<1995, 1760, 1210, 648, 270, 88, 22, 4, 1, 0, 0>>

\* scipy.stats.norm.pdf(meas_range, meas_range_exp, sigma_r), with
\* meas_range_exp = sqrt(d2), as a float64
NormPdf(meas_range, d2) == Literal(PdfMilli[ErrTenths(meas_range, d2) + 1], 1000)

\* the likelihood of one particle: the loop over the observations
RECURSIVE Likelihood(_, _, _, _, _)
Likelihood(sensor_data, particle, lms, i, all_meas_likelihood) ==
    IF i > Len(sensor_data.id) THEN all_meas_likelihood
    ELSE LET lx == lms[sensor_data.id[i]][1]
             ly == lms[sensor_data.id[i]][2]
             d2 == (lx - particle.x) * (lx - particle.x)
                   + (ly - particle.y) * (ly - particle.y)
             meas_likelihood == NormPdf(sensor_data.range[i], d2)
         IN  Likelihood(sensor_data, particle, lms, i + 1,
                        Weight(Fmul(all_meas_likelihood.val, meas_likelihood), TRUE))

\* mutant of InitialLikelihood: the product starts from 0.0
InitialLikelihood_Zero == Weight(0, FALSE)

\* the initial value of all_meas_likelihood: the Python float 1.0
InitialLikelihood == Weight(Unit, FALSE)

\* weight_update(sensor_data, particles, landmarks)
weight_update(sensor_data, particles, lms) ==
    [k \in 1..Len(particles) |->
        Likelihood(sensor_data, particles[k], lms, 1, InitialLikelihood)]

(* ------------------------------ the run -------------------------------- *)
VARIABLES
    pc,               \* where main (or the lone call) stands
    timestep,         \* the loop variable of main
    sensor_readings,  \* the sensor log: a sequence of [odometry, sensor]
    particles,        \* main's particles
    new_particles,    \* main's new_particles: the predicted set
    weights,          \* main's weights
    filenames,        \* main's filenames: one frame per plot
    ended,            \* how the last resample_particles call of main ended
    calls,            \* the calls made so far in the current iteration of main
    ret               \* the full outcome of a lone resample_particles call

vars == <<pc, timestep, sensor_readings, particles, new_particles, weights,
          filenames, ended, calls, ret>>

NoRet == [path |-> "none", err |-> "none", out |-> <<>>, picked |-> <<>>,
          i |-> 0, cs |-> <<>>, us |-> <<>>]

\* what main sees of a call: the path taken, the exception if any, and the
\* list returned (nothing is returned when the call raises)
Ended(r) == [path |-> r.path, err |-> r.err,
             out |-> IF r.err = "none" THEN r.out ELSE <<>>]

Reading(o, s) == [odometry |-> o, sensor |-> s]

\* the sensor records a log is made of: a record without observations and
\* no motion, and a turn in place with two landmarks observed at the ranges
\* 5.5 and 14.4
RecordSet ==
    { Reading(Odometry(0, 0, 0), Sensor(<<>>, <<>>)),
      Reading(Odometry(1, 0, 0), Sensor(<<1, 2>>, <<55, 144>>)) }

SensorLogs == UNION {SeqsOf(RecordSet, n) : n \in 0..MaxRecords}

Call(op, t, arg, res) == [op |-> op, t |-> t, arg |-> arg, res |-> res]

\* lines 196-205: the inputs are read and the particles initialized
Init ==
    /\ pc = "plot"
    /\ timestep = 0
    /\ sensor_readings \in SensorLogs
    /\ particles \in generate_particles(NumParticles, MapLimits)
    /\ new_particles = <<>>
    /\ weights = <<>>
    /\ filenames = <<>>
    /\ ended = Ended(NoRet)
    /\ calls = <<>>
    /\ ret = NoRet

\* lines 209-215: the loop takes the next record and plots the current state
Plot ==
    /\ pc = "plot"
    /\ timestep < Len(sensor_readings)
    /\ filenames' = Append(filenames, timestep)
    /\ calls' = <<Call("plot", timestep, particles, <<>>)>>
    /\ pc' = "motion"
    /\ UNCHANGED <<timestep, sensor_readings, particles, new_particles, weights,
                   ended, ret>>

\* line 219
SampleMotion ==
    /\ pc = "motion"
    /\ \E moved \in sample_motion(sensor_readings[timestep + 1].odometry, particles) :
          /\ new_particles' = moved
          /\ calls' = Append(calls, Call("sample_motion", timestep, particles, moved))
    /\ pc' = "weight"
    /\ UNCHANGED <<timestep, sensor_readings, particles, weights, filenames,
                   ended, ret>>

\* line 222
WeightUpdate ==
    /\ pc = "weight"
    /\ weights' = weight_update(sensor_readings[timestep + 1].sensor,
                                new_particles, landmarks)
    /\ calls' = Append(calls, Call("weight_update", timestep, new_particles, weights'))
    /\ pc' = "resample"
    /\ UNCHANGED <<timestep, sensor_readings, particles, new_particles, filenames,
                   ended, ret>>

\* line 225 and the step to the next iteration; an exception ends main
Resample ==
    /\ pc = "resample"
    /\ \E r \in resample_particles(new_particles, weights) :
          /\ ended' = Ended(r)
          /\ IF r.err = "none"
             THEN /\ particles' = r.out
                  /\ timestep' = timestep + 1
                  /\ pc' = "plot"
                  /\ calls' = <<>>
             ELSE /\ pc' = "raised"
                  /\ UNCHANGED <<particles, timestep, calls>>
    /\ UNCHANGED <<sensor_readings, new_particles, weights, filenames, ret>>

\* lines 227-236: the loop is over; the frames are assembled and removed
Finish ==
    /\ pc = "plot"
    /\ timestep = Len(sensor_readings)
    /\ pc' = "done"
    /\ UNCHANGED <<timestep, sensor_readings, particles, new_particles, weights,
                   filenames, ended, calls, ret>>

Next == Plot \/ SampleMotion \/ WeightUpdate \/ Resample \/ Finish

Spec == Init /\ [][Next]_vars

(* ----------------- resample_particles called on its own ---------------- *)
\* poses of the particle lists handed in: one inside the map, one outside
ArgPoses == {Pose(5, 5, 0), Pose(20, -3, 5)}

\* weight values handed in: 0, 1/256, the threshold, 9/16, 5/8 and 1
ArgWeights == {0, Unit \div 256, CollapseThreshold,
               9 * (Unit \div 16), 5 * (Unit \div 8), Unit}

ArgParticleLists == UNION {SeqsOf(ArgPoses, n) : n \in 0..MaxLen}

ArgWeightLists ==
    UNION {SeqsOf({Weight(v, isnp) : v \in ArgWeights}, n) :
              n \in 0..MaxLen, isnp \in BOOLEAN}

InitResample ==
    /\ pc = "call"
    /\ timestep = 0
    /\ sensor_readings = <<>>
    /\ particles = <<>>
    /\ new_particles \in ArgParticleLists
    /\ weights \in ArgWeightLists
    /\ filenames = <<>>
    /\ ended = Ended(NoRet)
    /\ calls = <<>>
    /\ ret = NoRet

\* particles = resample_particles(new_particles, weights)
CallResample ==
    /\ pc = "call"
    /\ \E r \in resample_particles(new_particles, weights) :
          /\ ret' = r
          /\ ended' = Ended(r)
          /\ IF r.err = "none"
             THEN particles' = r.out /\ pc' = "returned"
             ELSE UNCHANGED particles /\ pc' = "raised"
    /\ UNCHANGED <<timestep, sensor_readings, new_particles, weights, filenames, calls>>

NextResample == CallResample

SpecResample == InitResample /\ [][NextResample]_vars

\* both ways resample_particles is reached: from main's loop, or called alone
InitAll == Init \/ InitResample
NextAll == Next \/ NextResample
SpecAll == InitAll /\ [][NextAll]_vars

(* ------------------------------ properties ----------------------------- *)
InBounds(p, lim) ==
    /\ lim[1] <= p.x /\ p.x <= lim[2]
    /\ lim[3] <= p.y /\ p.y <= lim[4]
    /\ -PiQ <= p.theta /\ p.theta <= PiQ

C3_CollapseStep ==
    (pc \in {"resample", "call"}) =>
        /\ (ended'.path = "collapse") <=> (normalizer(weights).val < CollapseThreshold)
        /\ (ended'.path = "collapse") =>
              /\ ended'.err = "none"
              /\ particles' = ended'.out
              /\ Len(particles') = Len(weights)
              /\ \A k \in 1..Len(particles') : InBounds(particles'[k], <<-1, 12, 0, 10>>)
              /\ pc = "call" => pc' = "returned"
              /\ pc = "resample" =>
                    /\ pc' = "plot" /\ timestep' = timestep + 1
                    /\ Len(particles') = NumParticles

\* C3 (SpecAll).  Collapse fallback: a resample_particles call takes the
\* fallback exactly when sum(weights) < 0.01 (strictly); it then returns,
\* without an exception, one fresh particle per weight (NumParticles in a run),
\* each inside the default bounds whatever the input set was; and a run goes
\* on to the next timestep, which plots and predicts from that set.
C3_CollapseFallback ==
    /\ [][C3_CollapseStep]_vars
    /\ [](ended.path = "collapse" /\ pc \in {"motion", "weight", "resample"}
             => /\ calls[1].op = "plot" /\ calls[1].arg = ended.out
                /\ particles = ended.out)

\* C3 witness: after a fallback the next timestep has plotted the fresh set and
\* is about to predict from it; the predicted set that collapsed lay outside
\* the default bounds
C3_Witness ==
    /\ pc = "motion" /\ timestep = 1
    /\ ended.path = "collapse"
    /\ calls[1].op = "plot" /\ calls[1].arg = ended.out
    /\ particles = ended.out
    /\ \A k \in 1..Len(particles) : InBounds(particles[k], <<-1, 12, 0, 10>>)
    /\ \E k \in 1..Len(new_particles) : ~InBounds(new_particles[k], <<-1, 12, 0, 10>>)

\* C5 (Spec).  Empty observation list: the weights weight_update returns for a
\* record without observations are one per predicted particle, each exactly 1.0.
C5_EmptyObservations ==
    (pc = "resample" /\ Len(sensor_readings[timestep + 1].sensor.id) = 0)
        => /\ Len(weights) = Len(new_particles)
           /\ \A k \in 1..Len(weights) : weights[k].val = Unit

\* C5 witness: such a record has been weighted in the second timestep
C5_Witness ==
    /\ pc = "resample" /\ timestep = 1
    /\ Len(sensor_readings[timestep + 1].sensor.id) = 0
    /\ Len(weights) = NumParticles
    /\ \A k \in 1..Len(weights) : weights[k].val = Unit

\* the calls an iteration has made when main stands at a given place
CallsAt(at) ==
    CASE at = "motion"   -> <<"plot">>
      [] at = "weight"   -> <<"plot", "sample_motion">>
      [] at = "resample" -> <<"plot", "sample_motion", "weight_update">>
      [] OTHER           -> <<>>

\* C6 (Spec).  Timestep ordering: main never stops before the log is used up;
\* within a timestep the calls are plot, sample_motion, weight_update in this
\* order, then resample_particles; plot and sample_motion get the prior set,
\* weight_update the predicted set, resample_particles the predicted set and
\* those weights; the set the resampler returned is the next prior.
C6_TimestepOrdering ==
    /\ pc # "raised"
    /\ timestep <= Len(sensor_readings)
    /\ pc = "done" => timestep = Len(sensor_readings)
    /\ Len(filenames) = (IF pc = "plot" \/ pc = "done" THEN timestep ELSE timestep + 1)
    /\ [k \in 1..Len(calls) |-> calls[k].op] = CallsAt(pc)
    /\ \A k \in 1..Len(calls) : calls[k].t = timestep
    /\ Len(calls) >= 1 => calls[1].arg = particles
    /\ Len(calls) >= 2 => calls[2].arg = particles /\ calls[2].res = new_particles
    /\ Len(calls) >= 3 => calls[3].arg = new_particles /\ calls[3].res = weights
    /\ timestep > 0 => particles = ended.out

\* the sum of the weight values, as a float (sum(weights))
SumOfWeights == normalizer(weights).val

\* a lone call on the non-collapse path has returned
ReturnedSus == pc = "returned" /\ ret.path = "sus"

\* C2 (SpecResample).  Resampling closure: when sum(weights) is not below 0.01
\* and the call returns, every particle returned is value-equal to a particle
\* of the list handed in.
C2_ResamplingClosure ==
    (pc = "returned" /\ ~(SumOfWeights < CollapseThreshold))
        => \A k \in 1..Len(particles) :
              \E m \in 1..Len(new_particles) : particles[k] = new_particles[m]

\* C2 witness: a call on the non-collapse path returned two different poses
C2_Witness ==
    /\ ReturnedSus
    /\ SumOfWeights >= CollapseThreshold
    /\ Len(particles) = 2
    /\ particles[1] # particles[2]
    /\ particles[1] = new_particles[1] /\ particles[2] = new_particles[2]

\* C4 (SpecResample).  Length mismatch is fatal: a call with
\* len(weights) # len(particles) ends in an exception and returns nothing.
C4_LengthMismatchFatal ==
    (pc # "call" /\ Len(weights) # Len(new_particles)) => pc = "raised"

\* the cumulative normalized weight w_0 + ... + w_i, summed as the scan sums it
RECURSIVE CumulativeWeight(_, _)
CumulativeWeight(w, i) ==
    IF i = 0 THEN w[1] ELSE Fadd(CumulativeWeight(w, i - 1), w[i + 1])

\* the smallest index whose cumulative normalized weight is >= u
FirstReaching(w, u) ==
    CHOOSE i \in 0..(Len(w) - 1) :
        /\ CumulativeWeight(w, i) >= u
        /\ \A m \in 0..(i - 1) : CumulativeWeight(w, m) < u

\* C8 (SpecResample).  Systematic resampling rule: when a call on the
\* non-collapse path returns, the thresholds are u0 in [0, step), u0 + step,
\* ... (each the float sum of the one before and step), output position k
\* holds the input particle at the smallest index whose cumulative
\* normalized weight is >= the k-th threshold, and the selected indices are
\* non-decreasing in k.
C8_SystematicRule ==
    ReturnedSus =>
        LET w    == Normalized(weights)
            step == StepOf(new_particles)
            n    == Len(new_particles)
        IN  /\ Len(particles) = n /\ Len(ret.picked) = n /\ Len(ret.us) = n
            /\ 0 <= ret.us[1] /\ ret.us[1] < step
            /\ \A k \in 1..(n - 1) : ret.us[k + 1] = Fadd(ret.us[k], step)
            /\ \A k \in 1..n :
                  /\ \E i \in 0..(Len(w) - 1) : CumulativeWeight(w, i) >= ret.us[k]
                  /\ ret.picked[k] = FirstReaching(w, ret.us[k])
                  /\ particles[k] = new_particles[ret.picked[k] + 1]
            /\ \A k \in 1..(n - 1) : ret.picked[k] <= ret.picked[k + 1]

\* C8 witness: a call returned with the pointer advanced between two slots
C8_Witness ==
    /\ ReturnedSus
    /\ Len(ret.picked) = 2
    /\ ret.picked = <<0, 1>>
    /\ ret.us[1] > 0
    /\ weights[1].val > 0

\* the calls C9 and C10 are about: index-aligned float64 weights, no collapse
Aligned ==
    /\ Len(weights) = Len(new_particles)
    /\ \A k \in 1..Len(weights) : weights[k].np
    /\ SumOfWeights >= CollapseThreshold

\* C9 (SpecResample).  Pointer stays in range: with len(weights) =
\* len(particles) = N and sum(weights) >= 0.01, the scan ends for every slot
\* and the pointer never exceeds N - 1: the call returns N particles and
\* raises no IndexError.
C9_PointerInRange ==
    (pc # "call" /\ Aligned) =>
        /\ ret.err # "IndexError"
        /\ ret.i <= Len(weights) - 1
        /\ pc = "returned" /\ Len(ret.picked) = Len(new_particles)

\* how often the index i was selected
Copies(i) == Cardinality({k \in 1..Len(ret.picked) : ret.picked[k] = i})

\* the exact sum of the weight values (no rounding)
RECURSIVE ExactSum(_, _)
ExactSum(ws, k) == IF k = 0 THEN 0 ELSE ExactSum(ws, k - 1) + ws[k].val

\* C10 (SpecResample).  Low-variance selection counts: when a call with
\* index-aligned weights returns on the non-collapse path, particle i is
\* copied between floor(N*w_i) and ceil(N*w_i) times (w_i its normalized
\* weight); a particle of weight 0 is never copied; with all weights equal
\* every particle is copied exactly once, in order.
C10_SelectionCounts ==
    (ReturnedSus /\ Aligned) =>
        LET n == Len(weights)
            s == ExactSum(weights, n)
        IN  /\ \A i \in 0..(n - 1) :
                  /\ weights[i + 1].val = 0 => Copies(i) = 0
                  /\ (n * weights[i + 1].val) \div s <= Copies(i)
                  /\ Copies(i) <= (n * weights[i + 1].val + s - 1) \div s
            /\ (\A i \in 1..n : weights[i].val = weights[1].val)
                  => ret.picked = [k \in 1..n |-> k - 1]

====
